---- MODULE Spec2Model ----
(***************************************************************************)
(* Model of the download queue of clipy (src-tauri/src/services/queue.rs), *)
(* the process registry (services/process_registry.rs) and the part of     *)
(* the yt-dlp executor (services/ytdlp.rs, download_video) that talks to   *)
(* them.  Commands are issued by concurrently running caller tasks; every  *)
(* lock acquisition of the code is one atomic step of its caller.          *)
(***************************************************************************)
EXTENDS Naturals, Integers, Sequences, FiniteSets, TLC

(* ------------------------------ bounds -------------------------------- *)
NumThreads == 2      \* caller tasks that issue commands concurrently
NumIds == 2          \* distinct job ids the concurrent callers submit
MaxStarts == 2       \* submissions the concurrent callers push
MaxLimit == 2        \* largest concurrency limit (initial or set)
MaxLines == 1        \* progress lines one external process prints
SeqIds == 2          \* distinct job ids of the one-caller specification
SeqStarts == 2       \* submissions plus resumes of the one-caller specification
CancelIds == 1       \* distinct job ids of the concurrent cancel specification
ResumeIds == 3       \* distinct job ids of the resume specification
RetryIds == 2        \* distinct job ids submitted in the retry specification
RetryStarts == 3     \* submissions, retries included, of the retry specification
DrainLines == 2      \* progress lines a process writes in the drain specification
MaxEntries == 2      \* directory entries find_downloaded_file scans
MaxTime == 2         \* modification times of those entries
StreamLines == 3     \* progress lines per run of the stream specification
ResumeStarts == 4    \* submissions plus resumes of the resume specification
MaxMainLines == 2    \* output lines the select loop reads in the capture specification
MaxRestLines == 1    \* lines left on stderr once stdout has closed
MaxPaths == 2        \* distinct paths those lines name

Threads == 1..NumThreads
JobIds == 1..NumIds
SeqJobIds == 1..SeqIds
ResumeJobIds == 1..ResumeIds
CancelJobIds == 1..CancelIds
RetryJobIds == 1..RetryIds

VARIABLES
    active,          \* queue.rs:16   HashMap id -> task record
    pending,         \* queue.rs:18   Vec of task records
    max_concurrent,  \* queue.rs:20   the limit
    max_lock,        \* queue.rs:20   holder of the limit's write guard, 0 = none
    registry,        \* process_registry.rs:11  id -> pid
    runs,            \* pid/slot -> the executor run started by start_download
    th,              \* per caller task: position, command, locals
    next_seq,        \* tasks pushed so far + 1 (identity of a task record)
    resumes,         \* successful resumes so far
    emitted,         \* the "download-progress" events the last step emitted
    dropped,         \* history: tasks (seq) that cancel removed from pending
    arg,             \* the argument of a call of a function of ytdlp.rs
    out              \* what that call returned, NoValue before it returns

vars == <<active, pending, max_concurrent, max_lock, registry, runs, th,
          next_seq, resumes, emitted, dropped, arg, out>>

\* no call of a function of ytdlp.rs is being looked at
NoValue == [none |-> TRUE]

NoTask ==
    [id |-> 0, status |-> "None", seq |-> 0, opt |-> 0, error |-> FALSE,
     completed_at |-> FALSE]

\* pc/cmd/id/task/maxc/res: position, command, argument, locals, result.
\* solo: no other command has run since this call began.
\* dup : the submitted id was in pending or active when the call began and
\*       no cancel or clear has removed it since.
\* hit : the command's registry kill found an entry for the id.
\* list: the tasks get_all_downloads has copied so far.
\* held: the tasks (seq) that were in the queue when the listing began.
IdleThread == [pc |-> "idle", cmd |-> "none", id |-> 0, task |-> NoTask,
               maxc |-> 0, res |-> "none", solo |-> FALSE, dup |-> FALSE,
               hit |-> FALSE, list |-> << >>, held |-> {}]

(* ----------------------------- helpers -------------------------------- *)
MapPut(m, k, v) == [i \in (DOMAIN m) \cup {k} |-> IF i = k THEN v ELSE m[i]]

MapDel(m, k) == [i \in (DOMAIN m) \ {k} |-> m[i]]

PendingIds == {pending[i].id : i \in 1..Len(pending)}

\* a removal that removes nothing
RemoveAtNone(s, i) == s

\* queue.rs:325 pending.remove(idx)
RECURSIVE RemoveAt(_, _)
RemoveAt(s, i) ==
    IF i = 1 THEN Tail(s) ELSE <<Head(s)>> \o RemoveAt(Tail(s), i - 1)

\* queue.rs:29-37 DownloadQueue::new, process_registry.rs:16-20, lib.rs:49-53
Init ==
    /\ active = << >>
    /\ pending = << >>
    /\ max_concurrent \in 1..MaxLimit
    /\ max_lock = 0
    /\ registry = << >>
    /\ runs = << >>
    /\ th = [t \in Threads |-> IdleThread]
    /\ next_seq = 1
    /\ resumes = 0
    /\ emitted = << >>
    /\ dropped = {}
    /\ arg = NoValue
    /\ out = NoValue

\* the queue as constructed, while a function of ytdlp.rs is called with one
\* of the given arguments
InitCall(args) ==
    /\ active = << >>
    /\ pending = << >>
    /\ max_concurrent = 1
    /\ max_lock = 0
    /\ registry = << >>
    /\ runs = << >>
    /\ th = [t \in Threads |-> IdleThread]
    /\ next_seq = 1
    /\ resumes = 0
    /\ emitted = << >>
    /\ dropped = {}
    /\ arg \in args
    /\ out = NoValue

\* the call returns value
Returns(value) ==
    /\ out = NoValue
    /\ out' = value
    /\ UNCHANGED <<active, pending, max_concurrent, max_lock, registry, runs,
                   th, next_seq, resumes, emitted, dropped, arg>>

(* ------------------------ progress samples ---------------------------- *)
\* models/download.rs DownloadProgress: the job, the status, whether
\* file_path is Some, and the progress line the figures were parsed from
\* (0 for a sample that was not parsed from a line)
Sample(id, status, path, line) ==
    [id |-> id, status |-> status, path |-> path, line |-> line]

(* -------------------- the lock of the active set ---------------------- *)
\* queue.rs:399-402 shutdown keeps its read guard on the active set while it
\* signals a job's process ("shut_kill") and while its cancel_download
\* waits for the write guard ("shut_write"); every other guard on the
\* pending sequence or the active set is taken and dropped inside one step
ActiveReaders == {t \in Threads : th[t].pc \in {"shut_kill", "shut_write"}}

\* a write guard that also waits for the runs suspended on their process
CanWriteActiveNoRun ==
    /\ ActiveReaders = {}
    /\ \A p \in DOMAIN runs : runs[p].px \notin {"read", "drain"}

\* active.write().await goes on once no read guard is held
CanWriteActive == ActiveReaders = {}

\* active.read().await goes on unless a writer is waiting (tokio's RwLock
\* is fair: a queued writer holds back later readers)
CanReadActive == \A t \in Threads : th[t].pc # "shut_write"

\* queue.rs:235-237 emit_progress: a step that emits nothing
Silent == emitted' = << >>

\* queue.rs:235-237 emit_progress: a step that emits one event
Emit(sample) == emitted' = <<sample>>

(* ---------------------- process registry ------------------------------ *)
\* process_registry.rs:23-27
Register(reg, id, pid) == MapPut(reg, id, pid)

\* process_registry.rs:30-35 (keyed by download id, whatever pid is stored)
Unregister(reg, id) == MapDel(reg, id)

\* process_registry.rs:97-136 kill_process: SIGTERM ends a running process
KillProcess(rs, pid) ==
    IF pid \in DOMAIN rs /\ rs[pid].proc = "running"
    THEN [rs EXCEPT ![pid].proc = "killed"]
    ELSE rs

\* process_registry.rs:40-41 kill: processes.remove(download_id) is Some
KillFinds(reg, id) == id \in DOMAIN reg

\* process_registry.rs:38-53 kill: the runs after the signal
KillRuns(rs, reg, id) ==
    IF id \in DOMAIN reg THEN KillProcess(rs, reg[id]) ELSE rs

\* a kill that signals the process and keeps its entry
KillRegKeeps(reg, id) == reg

\* process_registry.rs:38-53 kill: the registry after the unregister
KillReg(reg, id) ==
    IF id \in DOMAIN reg THEN Unregister(reg, id) ELSE reg

(* --------------------------- executor --------------------------------- *)
\* One run = one start_download invocation (queue.rs:99-232): the progress
\* channel, the receiver task, and the task that awaits download_video.
\*   px    position of download_video: spawn, read, done
\*   proc  the external process: none, running, killed (signalled)
\*   chan  the samples queued in the mpsc channel
\*   outq, errq  the progress lines written to stdout and to stderr that
\*         download_video has not read yet (by line number)
\* A run is kept under a slot <<id, k>> that also serves as its process id.
NewRun(task) ==
    [id |-> task.id, px |-> "spawn", proc |-> "none", chan |-> << >>,
     lines |-> 0, outq |-> << >>, errq |-> << >>]

\* the slot of the next run of job id: one above the slots its runs occupy,
\* so that of two runs of a job the one started later has the higher slot
FreeSlot(rs, id) ==
    LET used == {p[2] : p \in {q \in DOMAIN rs : q[1] = id}} IN
      <<id, IF used = {} THEN 1
            ELSE 1 + CHOOSE k \in used : \A j \in used : j <= k>>

\* queue.rs:122-229 the tasks start_download spawns
StartRun(rs, task) == MapPut(rs, FreeSlot(rs, task.id), NewRun(task))

\* a run whose tasks have all ended is gone
Settle(rs, p) ==
    IF rs[p].px = "done" /\ rs[p].chan = << >> THEN MapDel(rs, p) ELSE rs

\* a start_download that leaves the record in the Fetching status
StartedRecordFetching(task) ==
    [status |-> "Fetching", seq |-> task.seq, opt |-> task.opt,
     error |-> task.error, completed_at |-> task.completed_at]

\* queue.rs:99-108: the record start_download inserts
StartedRecord(task) ==
    [status |-> "Downloading", seq |-> task.seq, opt |-> task.opt,
     error |-> task.error, completed_at |-> task.completed_at]

\* queue.rs:102-108 the active set after start_download(task)
StartActive(act, task) == MapPut(act, task.id, StartedRecord(task))

\* queue.rs:175-215: the status the completion task writes for a result
FinalStatus(ok) == IF ok THEN "Completed" ELSE "Failed"

\* a final event that reports Completed whatever the result
FinalSampleOk(id, ok) == Sample(id, "Completed", ok, 0)

\* a final event that carries a file path whatever the result
FinalSamplePath(id, ok) == Sample(id, FinalStatus(ok), TRUE, 0)

\* queue.rs:216-226: the final event, file_path Some only for an Ok result
FinalSample(id, ok) == Sample(id, FinalStatus(ok), ok, 0)

\* queue.rs:172 the completion task finds the record by id
CompletionFinds(act, id) == id \in DOMAIN act

\* queue.rs:171-228: the completion task's update, under the active write
\* lock: status, and error (Err) or completed_at (Ok), whether set
Completed(act, id, ok) ==
    IF CompletionFinds(act, id)
    THEN [act EXCEPT ![id].status = FinalStatus(ok),
                     ![id].error = IF ok THEN @ ELSE TRUE,
                     ![id].completed_at = IF ok THEN TRUE ELSE @]
    ELSE act

\* ytdlp.rs:151, 339-344 with queue.rs:167-229: get_ytdlp_path or spawn
\* fails, download_video returns Err before anything is registered or sent,
\* and the completion task records the failure
SpawnFail(p) ==
    /\ runs[p].px = "spawn"
    /\ CanWriteActive
    /\ active' = Completed(active, runs[p].id, FALSE)
    /\ runs' = Settle([runs EXCEPT ![p].px = "done"], p)
    /\ UNCHANGED <<pending, max_concurrent, max_lock, registry, th, next_seq,
                   resumes>>
    /\ IF CompletionFinds(active, runs[p].id)
       THEN Emit(FinalSample(runs[p].id, FALSE))
       ELSE Silent
    /\ UNCHANGED <<dropped, arg, out>>

\* ytdlp.rs:339-371: spawn, register the pid under the download id, send
\* the initial Downloading sample into the channel
SpawnOk(p) ==
    /\ runs[p].px = "spawn"
    /\ runs' = [runs EXCEPT ![p].px = "read", ![p].proc = "running",
                            ![p].chan = Append(@, Sample(runs[p].id,
                                                "Downloading", FALSE, 0))]
    /\ registry' = Register(registry, runs[p].id, p)
    /\ UNCHANGED <<active, pending, max_concurrent, max_lock, th, next_seq,
                   resumes>>
    /\ Silent
    /\ UNCHANGED <<dropped, arg, out>>

\* ytdlp.rs:381-480: one progress line read (also one still buffered in the
\* pipe of a signalled process), parsed and sent as a Downloading sample
ReadLine(p, maxl) ==
    /\ runs[p].px = "read"
    /\ runs[p].lines < maxl
    /\ runs' = [runs EXCEPT ![p].lines = @ + 1,
                            ![p].chan = Append(@, Sample(runs[p].id,
                                                "Downloading", FALSE,
                                                runs[p].lines + 1))]
    /\ UNCHANGED <<active, pending, max_concurrent, max_lock, registry, th,
                   next_seq, resumes>>
    /\ Silent
    /\ UNCHANGED <<dropped, arg, out>>

\* exit status the wait can see: a signalled process never succeeds
ExitCodes(p) == IF runs[p].proc = "killed" THEN {1} ELSE {0, 1}

\* ytdlp.rs:504-533 with queue.rs:167-229: streams closed, wait,
\* unregister(download_id); Err on a failed exit, else send Completed and
\* resolve the output file; download_video returns and the completion task,
\* which awaits nothing but the active write lock, records the result
Finish(p) ==
    /\ runs[p].px \in {"read", "drain"}
    /\ CanWriteActive
    /\ runs[p].outq = << >> /\ runs[p].errq = << >>
    /\ \E code \in ExitCodes(p), found \in BOOLEAN :
         /\ runs' = Settle([runs EXCEPT
                      ![p].proc = "none",
                      ![p].lines = 0,
                      ![p].chan = IF code = 0
                                  THEN Append(@, Sample(runs[p].id,
                                                 "Completed", FALSE, 0))
                                  ELSE @,
                      ![p].px = "done"], p)
         /\ active' = Completed(active, runs[p].id, code = 0 /\ found)
         /\ IF CompletionFinds(active, runs[p].id)
            THEN Emit(FinalSample(runs[p].id, code = 0 /\ found))
            ELSE Silent
    /\ registry' = Unregister(registry, runs[p].id)
    /\ UNCHANGED <<pending, max_concurrent, max_lock, th, next_seq, resumes>>
    /\ UNCHANGED <<dropped, arg, out>>

\* queue.rs:145: the receiver copies the sample's status into the record
RecvStatus(old, sample) == sample.status

\* a receiver handed the newest queued sample
RecvTakeNewest(chan) == chan[Len(chan)]

\* queue.rs:138 progress_rx.recv(): the sample the receiver takes
RecvTake(chan) == Head(chan)

\* queue.rs:138 progress_rx.recv(): what stays queued
RecvRest(chan) == Tail(chan)

\* queue.rs:137-160: receiver task, one sample taken from the channel
Recv(p) ==
    /\ runs[p].chan # << >>
    /\ CanWriteActive
    /\ LET id == runs[p].id
           sample == RecvTake(runs[p].chan) IN
         /\ active' = IF id \in DOMAIN active
                      THEN [active EXCEPT
                              ![id].status = RecvStatus(@, sample)]
                      ELSE active
         /\ Emit(sample)
    /\ runs' = Settle([runs EXCEPT ![p].chan = RecvRest(@)], p)
    /\ UNCHANGED <<pending, max_concurrent, max_lock, registry, th, next_seq,
                   resumes>>
    /\ UNCHANGED <<dropped, arg, out>>

\* the external process writes a progress line to one of its streams
WriteLine(p, maxl) ==
    /\ runs[p].px = "read"
    /\ runs[p].lines < maxl
    /\ \/ runs' = [runs EXCEPT ![p].lines = @ + 1,
                                ![p].outq = Append(@, runs[p].lines + 1)]
       \/ runs' = [runs EXCEPT ![p].lines = @ + 1,
                                ![p].errq = Append(@, runs[p].lines + 1)]
    /\ UNCHANGED <<active, pending, max_concurrent, max_lock, registry, th,
                   next_seq, resumes>>
    /\ Silent
    /\ UNCHANGED <<dropped, arg, out>>

\* ytdlp.rs:459-479: the Downloading sample sent for a parsed line
LineSample(id, line) == Sample(id, "Downloading", FALSE, line)

\* ytdlp.rs:381-395, 459-479: the select loop reads a line from stdout,
\* parses it and sends the sample
ReadOut(p) ==
    /\ runs[p].px = "read"
    /\ runs[p].outq # << >>
    /\ runs' = [runs EXCEPT
                  ![p].outq = Tail(@),
                  ![p].chan = Append(@, LineSample(runs[p].id,
                                                   Head(runs[p].outq)))]
    /\ UNCHANGED <<active, pending, max_concurrent, max_lock, registry, th,
                   next_seq, resumes>>
    /\ Silent
    /\ UNCHANGED <<dropped, arg, out>>

\* ytdlp.rs:396-408, 459-479: the select loop reads a line from stderr,
\* parses it and sends the sample
ReadErr(p) ==
    /\ runs[p].px = "read"
    /\ runs[p].errq # << >>
    /\ runs' = [runs EXCEPT
                  ![p].errq = Tail(@),
                  ![p].chan = Append(@, LineSample(runs[p].id,
                                                   Head(runs[p].errq)))]
    /\ UNCHANGED <<active, pending, max_concurrent, max_lock, registry, th,
                   next_seq, resumes>>
    /\ Silent
    /\ UNCHANGED <<dropped, arg, out>>

\* ytdlp.rs:386-389: stdout is at its end (every line of it was read) and
\* the select loop breaks while stderr still holds lines
CloseOut(p) ==
    /\ runs[p].px = "read"
    /\ runs[p].outq = << >>
    /\ runs[p].errq # << >>
    /\ runs' = [runs EXCEPT ![p].px = "drain"]
    /\ UNCHANGED <<active, pending, max_concurrent, max_lock, registry, th,
                   next_seq, resumes>>
    /\ Silent
    /\ UNCHANGED <<dropped, arg, out>>

\* ytdlp.rs:484-502: a remaining stderr line is read after the loop; it is
\* searched for a file path and not handed to parse_progress_line
DrainErr(p) ==
    /\ runs[p].px = "drain"
    /\ runs[p].errq # << >>
    /\ runs' = [runs EXCEPT ![p].errq = Tail(@)]
    /\ UNCHANGED <<active, pending, max_concurrent, max_lock, registry, th,
                   next_seq, resumes>>
    /\ Silent
    /\ UNCHANGED <<dropped, arg, out>>

\* ytdlp.rs:339-356 with queue.rs:167-229: the process is spawned and its
\* pid registered, then taking stdout or stderr fails and download_video
\* returns Err before the initial sample and without unregister; the child
\* handle is dropped and the run has no process any more
CaptureFail(p) ==
    /\ runs[p].px = "spawn"
    /\ CanWriteActive
    /\ registry' = Register(registry, runs[p].id, p)
    /\ active' = Completed(active, runs[p].id, FALSE)
    /\ runs' = Settle([runs EXCEPT ![p].px = "done"], p)
    /\ UNCHANGED <<pending, max_concurrent, max_lock, th, next_seq, resumes>>
    /\ IF CompletionFinds(active, runs[p].id)
       THEN Emit(FinalSample(runs[p].id, FALSE))
       ELSE Silent
    /\ UNCHANGED <<dropped, arg, out>>

\* ytdlp.rs:504-506 with queue.rs:167-229: the streams are closed and
\* child.wait() fails; download_video returns Err before unregister
WaitFail(p) ==
    /\ runs[p].px = "read"
    /\ CanWriteActive
    /\ runs' = Settle([runs EXCEPT ![p].proc = "none", ![p].lines = 0,
                                   ![p].px = "done"], p)
    /\ active' = Completed(active, runs[p].id, FALSE)
    /\ UNCHANGED <<pending, max_concurrent, max_lock, registry, th, next_seq,
                   resumes>>
    /\ IF CompletionFinds(active, runs[p].id)
       THEN Emit(FinalSample(runs[p].id, FALSE))
       ELSE Silent
    /\ UNCHANGED <<dropped, arg, out>>

Executor ==
    \E p \in DOMAIN runs :
        \/ SpawnFail(p) \/ SpawnOk(p) \/ ReadLine(p, MaxLines)
        \/ Finish(p) \/ Recv(p)


(* --------------------------- commands --------------------------------- *)
\* a command begins on caller task t: every call in flight stops being solo
Entry(t, c, i) ==
    [IdleThread EXCEPT !.cmd = c, !.id = i,
                       !.solo = \A u \in Threads \ {t} : th[u].pc = "idle"]

Begin(t, rec) ==
    [u \in Threads |-> IF u = t THEN rec ELSE [th[u] EXCEPT !.solo = FALSE]]

\* the command returns result to its caller
Ret(rec, result) ==
    [IdleThread EXCEPT !.pc = "ret", !.cmd = rec.cmd, !.id = rec.id,
                       !.res = result, !.solo = rec.solo, !.hit = rec.hit]

\* a job with one of these ids left the queue by cancel or clear: submits
\* that saw it present no longer count it as present
Forget(tt, ids) ==
    [u \in Threads |->
        IF tt[u].id \in ids THEN [tt[u] EXCEPT !.dup = FALSE] ELSE tt[u]]

\* submissions pushed, submissions on their way to the push, resumes
Starts ==
    (next_seq - 1) + resumes
      + Cardinality({u \in Threads :
                        th[u].pc \in {"add_chk_pending", "add_push"}})

\* queue.rs:45-49
ActiveContains(act, id) == id \in DOMAIN act

\* queue.rs:52-56
PendingContains(pend, id) == \E i \in 1..Len(pend) : pend[i].id = id

\* queue.rs:40-49 add_download: the check against the active set
AddCheckActive(t, id, budget) ==
    /\ th[t].pc = "idle"
    /\ CanReadActive
    /\ Starts < budget
    /\ LET e == [Entry(t, "submit", id) EXCEPT
                   !.dup = ActiveContains(active, id)
                             \/ PendingContains(pending, id)] IN
         th' = Begin(t, IF ActiveContains(active, id)
                        THEN Ret(e, "DuplicateJob")
                        ELSE [e EXCEPT !.pc = "add_chk_pending"])
    /\ UNCHANGED <<active, pending, max_concurrent, max_lock, registry, runs,
                   next_seq, resumes>>
    /\ Silent
    /\ UNCHANGED <<dropped, arg, out>>

\* queue.rs:51-56 add_download: the check against the pending sequence
AddCheckPending(t) ==
    /\ th[t].pc = "add_chk_pending"
    /\ th' = [th EXCEPT ![t] = IF PendingContains(pending, th[t].id)
                               THEN Ret(@, "DuplicateJob")
                               ELSE [@ EXCEPT !.pc = "add_push"]]
    /\ UNCHANGED <<active, pending, max_concurrent, max_lock, registry, runs,
                   next_seq, resumes>>
    /\ Silent
    /\ UNCHANGED <<dropped, arg, out>>

\* commands/download.rs:39-60: the task record a submission carries
NewTask(id, seq, opt) ==
    [id |-> id, status |-> "Pending", seq |-> seq, opt |-> opt,
     error |-> FALSE, completed_at |-> FALSE]

\* a retry that gives the new task options of its own
TaskOptionsOwn(rec, seq) == seq

\* commands/download.rs:58, 152: the options of the task being added: a
\* retry carries those of the failed job, any other submission its own
TaskOptions(rec, seq) == IF rec.cmd = "retry" THEN rec.task.opt ELSE seq

\* queue.rs:58-65 add_download: push, then process_queue
AddPush(t) ==
    /\ th[t].pc = "add_push"
    /\ pending' = Append(pending, NewTask(th[t].id, next_seq,
                                          TaskOptions(th[t], next_seq)))
    /\ next_seq' = next_seq + 1
    /\ th' = [th EXCEPT ![t].pc = "pq_begin", ![t].id = 0, ![t].dup = FALSE]
    /\ UNCHANGED <<active, max_concurrent, max_lock, registry, runs, resumes>>
    /\ Silent
    /\ UNCHANGED <<dropped, arg, out>>

\* queue.rs:72-74 process_queue: read the limit (a read lock: waits while a
\* write guard on the limit is held)
PqBegin(t) ==
    /\ th[t].pc = "pq_begin"
    /\ max_lock = 0
    /\ th' = [th EXCEPT ![t].pc = "pq_count", ![t].maxc = max_concurrent]
    /\ UNCHANGED <<active, pending, max_concurrent, max_lock, registry, runs,
                   next_seq, resumes>>
    /\ Silent
    /\ UNCHANGED <<dropped, arg, out>>

\* the bound test stopping one slot early
BoundReachedEarly(count, maxc) == count + 1 >= maxc

\* queue.rs:79 the loop's bound test
BoundReached(count, maxc) == count >= maxc

\* queue.rs:76-81 process_queue: count the active set, stop at the bound
PqCount(t) ==
    /\ th[t].pc = "pq_count"
    /\ CanReadActive
    /\ th' = [th EXCEPT ![t] =
                IF BoundReached(Cardinality(DOMAIN active), th[t].maxc)
                THEN Ret(@, "Ok")
                ELSE [@ EXCEPT !.pc = "pq_pop"]]
    /\ UNCHANGED <<active, pending, max_concurrent, max_lock, registry, runs,
                   next_seq, resumes>>
    /\ Silent
    /\ UNCHANGED <<dropped, arg, out>>

\* queue.rs:88 pending.remove(0): the task taken
PopTask(pend) == Head(pend)

\* queue.rs:88 pending.remove(0): what stays
PopRest(pend) == Tail(pend)

\* queue.rs:83-89 process_queue: take the head of pending, stop when empty
PqPop(t) ==
    /\ th[t].pc = "pq_pop"
    /\ IF pending = << >>
       THEN /\ th' = [th EXCEPT ![t] = Ret(@, "Ok")]
            /\ UNCHANGED pending
       ELSE /\ th' = [th EXCEPT ![t].pc = "pq_start",
                                ![t].task = PopTask(pending)]
            /\ pending' = PopRest(pending)
    /\ UNCHANGED <<active, max_concurrent, max_lock, registry, runs, next_seq,
                   resumes>>
    /\ Silent
    /\ UNCHANGED <<dropped, arg, out>>

\* queue.rs:91-92 with queue.rs:99-232 start_download, then loop again
PqStart(t) ==
    /\ th[t].pc = "pq_start"
    /\ CanWriteActive
    /\ active' = StartActive(active, th[t].task)
    /\ runs' = StartRun(runs, th[t].task)
    /\ th' = [th EXCEPT ![t].pc = "pq_count", ![t].task = NoTask]
    /\ UNCHANGED <<pending, max_concurrent, max_lock, registry, next_seq,
                   resumes>>
    /\ Emit(Sample(th[t].task.id, "Downloading", FALSE, 0))
    /\ UNCHANGED <<dropped, arg, out>>

\* a command returns to its caller; set_max_concurrent's write guard on the
\* limit is dropped here, at the end of its scope (queue.rs:389)
Return(t) ==
    /\ th[t].pc = "ret"
    /\ th' = [th EXCEPT ![t] = IdleThread]
    /\ max_lock' = IF max_lock = t THEN 0 ELSE max_lock
    /\ UNCHANGED <<active, pending, max_concurrent, registry, runs, next_seq,
                   resumes>>
    /\ Silent
    /\ UNCHANGED <<dropped, arg, out>>

\* queue.rs:383-388 set_max_concurrent: take the write guard on the limit,
\* store the new limit and, still holding the guard, call process_queue
SetMaxWrite(t, n) ==
    /\ th[t].pc = "idle"
    /\ max_lock = 0
    /\ max_lock' = t
    /\ max_concurrent' = n
    /\ th' = Begin(t, [Entry(t, "set_max", 0) EXCEPT !.pc = "pq_begin"])
    /\ UNCHANGED <<active, pending, registry, runs, next_seq, resumes>>
    /\ Silent
    /\ UNCHANGED <<dropped, arg, out>>

\* queue.rs:240-247 pause_download: signal the registered process
PauseKill(t, id) ==
    /\ th[t].pc = "idle"
    /\ runs' = KillRuns(runs, registry, id)
    /\ registry' = KillReg(registry, id)
    /\ th' = Begin(t, [Entry(t, "pause", id) EXCEPT
                         !.pc = "pause_mark",
                         !.hit = KillFinds(registry, id)])
    /\ UNCHANGED <<active, pending, max_concurrent, max_lock, next_seq,
                   resumes>>
    /\ Silent
    /\ UNCHANGED <<dropped, arg, out>>

\* queue.rs:250 the lookup that decides whether pause finds the job
PauseFinds(act, pend, id) == id \in DOMAIN act

\* a pause that leaves the status as it was
PauseStatusKept(old) == old

\* queue.rs:251 the status pause writes into the record it found
PauseStatus(old) == "Paused"

\* queue.rs:249-265 pause_download: mark the active record Paused
PauseMark(t) ==
    /\ th[t].pc = "pause_mark"
    /\ CanWriteActive
    /\ LET id == th[t].id IN
         IF PauseFinds(active, pending, id)
         THEN /\ active' = [active EXCEPT ![id].status = PauseStatus(@)]
              /\ th' = [th EXCEPT ![t] = Ret(@, "Ok")]
         ELSE /\ th' = [th EXCEPT ![t] = Ret(@, "JobNotFound")]
              /\ UNCHANGED active
    /\ UNCHANGED <<pending, max_concurrent, max_lock, registry, runs,
                   next_seq, resumes>>
    /\ IF PauseFinds(active, pending, th[t].id)
       THEN Emit(Sample(th[t].id, "Paused", FALSE, 0))
       ELSE Silent
    /\ UNCHANGED <<dropped, arg, out>>

\* a resume that takes any active record, Paused or not
ResumeTakesAny(act, id) == id \in DOMAIN act

\* queue.rs:274-283 the test that lets resume take the record
ResumeTakes(act, id) == id \in DOMAIN act /\ act[id].status = "Paused"

\* queue.rs:269-284 resume_download: take the record out if it is Paused
\* (a record with another status is removed and put back unchanged)
ResumeTake(t, id, budget) ==
    /\ th[t].pc = "idle"
    /\ CanWriteActive
    /\ IF ResumeTakes(active, id)
       THEN /\ Starts < budget
            /\ resumes' = resumes + 1
            /\ active' = MapDel(active, id)
            /\ th' = Begin(t, [Entry(t, "resume", id) EXCEPT
                                 !.pc = "resume_start",
                                 !.task = [id |-> id, status |-> "Paused",
                                           seq |-> active[id].seq,
                                           opt |-> active[id].opt,
                                           error |-> active[id].error,
                                           completed_at |->
                                              active[id].completed_at]])
       ELSE /\ th' = Begin(t, Ret(Entry(t, "resume", id),
                                  "JobNotActiveOrNotPaused"))
            /\ UNCHANGED <<active, resumes>>
    /\ UNCHANGED <<pending, max_concurrent, max_lock, registry, runs,
                   next_seq>>
    /\ Silent
    /\ UNCHANGED <<dropped, arg, out>>

\* a resume that goes on into process_queue
AfterResumeAdmit(rec) == [rec EXCEPT !.pc = "pq_begin"]

\* queue.rs:287-288 what resume does once start_download has returned
AfterResume(rec) == Ret(rec, "Ok")

\* queue.rs:286-288 resume_download: start_download(task), nothing else
ResumeStart(t) ==
    /\ th[t].pc = "resume_start"
    /\ CanWriteActive
    /\ active' = StartActive(active, th[t].task)
    /\ runs' = StartRun(runs, th[t].task)
    /\ th' = [th EXCEPT ![t] = AfterResume([@ EXCEPT !.task = NoTask])]
    /\ UNCHANGED <<pending, max_concurrent, max_lock, registry, next_seq,
                   resumes>>
    /\ Emit(Sample(th[t].task.id, "Downloading", FALSE, 0))
    /\ UNCHANGED <<dropped, arg, out>>

\* a cancel that announces the job as Failed
CancelSampleFailed(id) == Sample(id, "Failed", FALSE, 0)

\* queue.rs:307-316, 326-335: the event cancel_download emits
CancelSample(id) == Sample(id, "Cancelled", FALSE, 0)

\* queue.rs:317, 336 with commands/download.rs:155-159: cancel_download
\* returns Ok; inside retry_download the caller goes on to add_download
AfterCancel(rec) ==
    IF rec.cmd = "retry" THEN [rec EXCEPT !.pc = "retry_add"]
                         ELSE Ret(rec, "Ok")

\* queue.rs:295-301 cancel_download: signal the registered process
CancelKill(t, id) ==
    /\ th[t].pc = "idle"
    /\ runs' = KillRuns(runs, registry, id)
    /\ registry' = KillReg(registry, id)
    /\ th' = Begin(t, [Entry(t, "cancel", id) EXCEPT
                         !.pc = "cancel_active",
                         !.hit = KillFinds(registry, id)])
    /\ UNCHANGED <<active, pending, max_concurrent, max_lock, next_seq,
                   resumes>>
    /\ Silent
    /\ UNCHANGED <<dropped, arg, out>>

\* queue.rs:303-319 cancel_download: remove from the active set
CancelActive(t) ==
    /\ th[t].pc = "cancel_active"
    /\ CanWriteActive
    /\ LET id == th[t].id IN
         IF id \in DOMAIN active
         THEN /\ active' = MapDel(active, id)
              /\ th' = Forget([th EXCEPT ![t] = AfterCancel(@)], {id})
         ELSE /\ th' = [th EXCEPT ![t].pc = "cancel_pending"]
              /\ UNCHANGED active
    /\ UNCHANGED <<pending, max_concurrent, max_lock, registry, runs,
                   next_seq, resumes>>
    /\ IF th[t].id \in DOMAIN active
       THEN Emit(CancelSample(th[t].id))
       ELSE Silent
    /\ UNCHANGED <<dropped, arg, out>>

\* queue.rs:324 pending.iter().position(..): first entry with the id, 0 if none
Position(pend, id) ==
    IF PendingContains(pend, id)
    THEN CHOOSE i \in 1..Len(pend) :
            /\ pend[i].id = id
            /\ \A j \in 1..(i - 1) : pend[j].id # id
    ELSE 0

\* queue.rs:321-340 cancel_download: remove from the pending sequence
CancelPending(t) ==
    /\ th[t].pc = "cancel_pending"
    /\ LET id == th[t].id
           idx == Position(pending, id) IN
         IF idx # 0
         THEN /\ pending' = RemoveAt(pending, idx)
              /\ th' = Forget([th EXCEPT ![t] = AfterCancel(@)], {id})
         ELSE /\ th' = [th EXCEPT ![t] = Ret(@, "JobNotFound")]
              /\ UNCHANGED pending
    /\ UNCHANGED <<active, max_concurrent, max_lock, registry, runs,
                   next_seq, resumes>>
    /\ IF Position(pending, th[t].id) # 0
       THEN Emit(CancelSample(th[t].id))
       ELSE Silent
    /\ dropped' = IF Position(pending, th[t].id) # 0
                  THEN dropped \cup {pending[Position(pending, th[t].id)].seq}
                  ELSE dropped
    /\ UNCHANGED <<arg, out>>

\* a clear that also drops Paused entries
TerminalOrPaused(status) ==
    status \in {"Completed", "Failed", "Cancelled", "Paused"}

\* queue.rs:375-379 the statuses clear_completed drops
Terminal(status) == status \in {"Completed", "Failed", "Cancelled"}

\* queue.rs:373-380 clear_completed
ClearCompleted(t) ==
    /\ th[t].pc = "idle"
    /\ CanWriteActive
    /\ LET gone == {i \in DOMAIN active : Terminal(active[i].status)} IN
         /\ active' = [i \in (DOMAIN active) \ gone |-> active[i]]
         /\ th' = Forget(Begin(t, Ret(Entry(t, "clear", 0), "Ok")), gone)
    /\ UNCHANGED <<pending, max_concurrent, max_lock, registry, runs,
                   next_seq, resumes>>
    /\ Silent
    /\ UNCHANGED <<dropped, arg, out>>

(* ------------------------------ retry --------------------------------- *)
\* commands/download.rs:133 uuid::Uuid::new_v4(): an id no submission uses
FreshId(seq) == 0 - seq

\* the record of job id in a snapshot of the active set, as a task
ActiveTask(act, id) ==
    IF id \in DOMAIN act
    THEN [id |-> id, status |-> act[id].status, seq |-> act[id].seq,
          opt |-> act[id].opt, error |-> act[id].error,
          completed_at |-> act[id].completed_at]
    ELSE NoTask

\* commands/download.rs:116-120 with queue.rs:347-350: retry_download calls
\* get_all_downloads, which first copies the active set
RetryListActive(t, id, budget) ==
    /\ th[t].pc = "idle"
    /\ CanReadActive
    /\ Starts < budget
    /\ th' = Begin(t, [Entry(t, "retry", id) EXCEPT
                         !.pc = "retry_list_pending",
                         !.task = ActiveTask(active, id)])
    /\ UNCHANGED <<active, pending, max_concurrent, max_lock, registry, runs,
                   next_seq, resumes, dropped, arg, out>>
    /\ Silent

\* commands/download.rs:122-125 find: the first listed task with the id
RetryFound(rec, pend) ==
    IF rec.task # NoTask THEN rec.task
    ELSE IF PendingContains(pend, rec.id)
         THEN pend[Position(pend, rec.id)]
         ELSE NoTask

\* commands/download.rs:127 the status a retry requires
Retryable(status) == status = "Failed"

\* queue.rs:352-355 with commands/download.rs:122-153: get_all_downloads
\* copies pending; the task is looked up, must be Failed, and the new task
\* is built from it
RetryListPending(t) ==
    /\ th[t].pc = "retry_list_pending"
    /\ LET found == RetryFound(th[t], pending) IN
         th' = [th EXCEPT ![t] =
                  IF found = NoTask THEN Ret(@, "JobNotFound")
                  ELSE IF ~Retryable(found.status) THEN Ret(@, "NotFailed")
                  ELSE [@ EXCEPT !.pc = "retry_kill",
                                 !.task = NewTask(FreshId(next_seq), 0,
                                                  found.opt)]]
    /\ UNCHANGED <<active, pending, max_concurrent, max_lock, registry, runs,
                   next_seq, resumes, dropped, arg, out>>
    /\ Silent

\* commands/download.rs:155-156 with queue.rs:295-301: cancel_download of
\* the old task begins by signalling its registered process
RetryKill(t) ==
    /\ th[t].pc = "retry_kill"
    /\ runs' = KillRuns(runs, registry, th[t].id)
    /\ registry' = KillReg(registry, th[t].id)
    /\ th' = [th EXCEPT ![t].pc = "cancel_active",
                        ![t].hit = KillFinds(registry, th[t].id)]
    /\ UNCHANGED <<active, pending, max_concurrent, max_lock, next_seq,
                   resumes, dropped, arg, out>>
    /\ Silent

\* commands/download.rs:158-159 with queue.rs:40-49: add_download of the
\* new task, its check against the active set
RetryAdd(t) ==
    /\ th[t].pc = "retry_add"
    /\ CanReadActive
    /\ th' = [th EXCEPT ![t] =
                IF ActiveContains(active, th[t].task.id)
                THEN Ret(@, "DuplicateJob")
                ELSE [@ EXCEPT !.pc = "add_chk_pending",
                               !.id = th[t].task.id]]
    /\ UNCHANGED <<active, pending, max_concurrent, max_lock, registry, runs,
                   next_seq, resumes, dropped, arg, out>>
    /\ Silent

(* ---------------------- find_downloaded_file -------------------------- *)
\* ytdlp.rs:712 video_extensions
VideoExtensions ==
    {"mp4", "mkv", "webm", "avi", "mov", "m4a", "mp3", "opus", "flac", "wav"}

\* the extensions of the files looked at; "" is a name without extension
Extensions == {"mp4", "MKV", "txt", ""}

\* ytdlp.rs:721 to_lowercase
ToLower(ext) == IF ext = "MKV" THEN "mkv" ELSE ext

\* ytdlp.rs:719-722 the entry is a regular file with a recognized extension
IsMedia(e) ==
    /\ e.file
    /\ e.ext # ""
    /\ ToLower(e.ext) \in VideoExtensions

\* an entry replaces the newest one so far when it is older
Older(modified, prev_time) == modified < prev_time

\* ytdlp.rs:727 Some((_, prev_time)) if modified > *prev_time
Newer(modified, prev_time) == modified > prev_time

\* ytdlp.rs:716-735 the scan, in read_dir order: newest_file after entries
RECURSIVE ScanFrom(_, _)
ScanFrom(newest, entries) ==
    IF entries = << >> THEN newest
    ELSE LET e == Head(entries) IN
           IF IsMedia(e) /\ (newest = NoValue \/ Newer(e.time, newest.time))
           THEN ScanFrom(e, Tail(entries))
           ELSE ScanFrom(newest, Tail(entries))

\* ytdlp.rs:698-749 find_downloaded_file(output_dir, captured_path)
find_downloaded_file(dir, captured) ==
    IF captured # NoValue /\ captured.exists
    THEN [ok |-> TRUE, path |-> captured.path]
    ELSE IF ~dir.exists
    THEN [ok |-> FALSE, error |-> "OutputNotFound"]
    ELSE LET newest == ScanFrom(NoValue, dir.entries) IN
           IF newest = NoValue
           THEN [ok |-> FALSE, error |-> "OutputNotFound"]
           ELSE [ok |-> TRUE, path |-> newest.path]

\* a directory entry: its path is its place in the directory
DirEntry ==
    [path : 1..MaxEntries, file : BOOLEAN, ext : Extensions,
     time : 1..MaxTime]

\* directories of up to MaxEntries entries, in read_dir order
Dirs ==
    {[exists |-> FALSE, entries |-> << >>]} \cup
    {[exists |-> TRUE, entries |-> es] :
        es \in {f \in UNION {[1..n -> DirEntry] : n \in 0..MaxEntries} :
                   \A k \in DOMAIN f : f[k].path = k}}

\* the path captured from the output, if any, and whether it exists
Captured ==
    {NoValue} \cup [path : {0}, exists : BOOLEAN]

FindCalls == [dir : Dirs, captured : Captured]

\* download_video resolves the output file (ytdlp.rs:530)
Find == Returns(find_downloaded_file(arg.dir, arg.captured))

FindSpec == InitCall(FindCalls) /\ [][Find]_vars

(* ----------------------- parse_progress_line -------------------------- *)
\* A line is a sequence of tokens. A token is a word (a run of characters
\* that the functions below never split), a single whitespace character, a
\* decimal number (value in hundredths, with the count of decimals printed)
\* or a time mm:ss.
Word(text) == [k |-> "word", s |-> text, v |-> 0, d |-> 0]
Sp == [k |-> "space", s |-> " ", v |-> 0, d |-> 0]
Num(hundredths, decimals) ==
    [k |-> "num", s |-> "", v |-> hundredths, d |-> decimals]
Time(mins, secs) == [k |-> "time", s |-> "", v |-> mins, d |-> secs]

\* str.contains(word)
Contains(line, text) == \E i \in 1..Len(line) : line[i] = Word(text)

\* str.find(word): the place of the first occurrence, 0 if none
FindWord(line, text) ==
    IF Contains(line, text)
    THEN CHOOSE i \in 1..Len(line) :
            /\ line[i] = Word(text)
            /\ \A j \in 1..(i - 1) : line[j] # Word(text)
    ELSE 0

\* str.find(' '): the place of the first whitespace, 0 if none
FindSpace(line) ==
    IF \E i \in 1..Len(line) : line[i] = Sp
    THEN CHOOSE i \in 1..Len(line) :
            line[i] = Sp /\ \A j \in 1..(i - 1) : line[j] # Sp
    ELSE 0

\* str.rfind(char::is_whitespace): the place of the last whitespace, 0 if
\* none
RFindSpace(line) ==
    IF \E i \in 1..Len(line) : line[i] = Sp
    THEN CHOOSE i \in 1..Len(line) :
            line[i] = Sp /\ \A j \in (i + 1)..Len(line) : line[j] # Sp
    ELSE 0

\* str.find(" word "): the place of the first word with a whitespace on
\* either side, 0 if none
FindSpaced(line, text) ==
    LET at == {i \in 2..(Len(line) - 1) :
                  line[i - 1] = Sp /\ line[i] = Word(text)
                    /\ line[i + 1] = Sp} IN
      IF at = {} THEN 0 ELSE CHOOSE i \in at : \A j \in at : i <= j

\* str.find("word "): the place of the first word followed by a whitespace
FindBefore(line, text) ==
    LET at == {i \in 1..(Len(line) - 1) :
                  line[i] = Word(text) /\ line[i + 1] = Sp} IN
      IF at = {} THEN 0 ELSE CHOOSE i \in at : \A j \in at : i <= j

\* &str[from..]
From(line, from) == SubSeq(line, from, Len(line))

\* str.trim()
RECURSIVE Trim(_)
Trim(str) ==
    IF str = << >> THEN str
    ELSE IF Head(str) = Sp THEN Trim(Tail(str))
    ELSE IF str[Len(str)] = Sp THEN Trim(SubSeq(str, 1, Len(str) - 1))
    ELSE str

\* str.parse::<f64>(): the number in hundredths; -1 stands for Err
ParseF64(str) ==
    IF Len(str) = 1 /\ str[1].k = "num" THEN str[1].v ELSE 0 - 1

\* the words a size or a rate is written with
UnitWords == {"KiB", "MiB", "GiB", "kB", "mib", "B", "TiB"}

\* the token begins with an alphabetic character
Alphabetic(tok) ==
    tok.k = "word" /\ tok.s \in UnitWords \cup {"Unknown", "of", "at", "ETA"}

\* ytdlp.rs:654 s.find(|c| c.is_alphabetic()).unwrap_or(s.len())
FindAlphabetic(str) ==
    IF \E i \in 1..Len(str) : Alphabetic(str[i])
    THEN CHOOSE i \in 1..Len(str) :
            Alphabetic(str[i]) /\ \A j \in 1..(i - 1) : ~Alphabetic(str[j])
    ELSE Len(str) + 1

\* ytdlp.rs:657 unit.to_uppercase()
ToUpper(text) ==
    CASE text \in {"KiB", "kib"} -> "KIB"
      [] text \in {"MiB", "mib"} -> "MIB"
      [] text \in {"GiB", "gib"} -> "GIB"
      [] text = "kB" -> "KB"
      [] text = "TiB" -> "TIB"
      [] OTHER -> text

\* ytdlp.rs:657-662 the multiplier of a unit
Multiplier(unit) ==
    IF Len(unit) # 1 THEN 1
    ELSE CASE ToUpper(unit[1].s) \in {"KIB", "KB"} -> 1024
           [] ToUpper(unit[1].s) \in {"MIB", "MB"} -> 1024 * 1024
           [] ToUpper(unit[1].s) \in {"GIB", "GB"} -> 1024 * 1024 * 1024
           [] OTHER -> 1

\* (a * b / c) as u64 for a, b >= 0, without leaving 32 bits on the way
MulDiv(a, b, c) == a * (b \div c) + (a * (b % c)) \div c

\* ytdlp.rs:652-665 parse_size
parse_size(str) ==
    LET t == Trim(str)
        at == FindAlphabetic(t)
        num == ParseF64(SubSeq(t, 1, at - 1))
        unit == From(t, at) IN
      MulDiv(IF num < 0 THEN 0 ELSE num, Multiplier(unit), 100)

\* str.trim_end_matches("/s")
RECURSIVE TrimEndPerSecond(_)
TrimEndPerSecond(str) ==
    IF str # << >> /\ str[Len(str)] = Word("/s")
    THEN TrimEndPerSecond(SubSeq(str, 1, Len(str) - 1))
    ELSE str

\* ytdlp.rs:668-671 parse_speed
parse_speed(str) == parse_size(TrimEndPerSecond(Trim(str)))

\* ytdlp.rs:674-695 parse_eta for a text with at most one time in it:
\* "Unknown" and "" give 0; mm:ss gives the seconds; mm:ss followed by
\* more text has seconds that do not parse; text without ':' gives 0
parse_eta(str) ==
    LET t == Trim(str) IN
      IF t = << >> \/ t = <<Word("Unknown")>> THEN 0
      ELSE IF t[1].k # "time" THEN 0
      ELSE IF Len(t) = 1 THEN t[1].v * 60 + t[1].d
      ELSE t[1].v * 60

\* ytdlp.rs:596-609 the percentage, in hundredths; 0 when it does not parse
Percentage(line) ==
    LET pct_idx == FindWord(line, "%")
        start == RFindSpace(SubSeq(line, 1, pct_idx - 1)) + 1
        pct == ParseF64(Trim(SubSeq(line, start, pct_idx - 1))) IN
      IF pct < 0 THEN 0 ELSE pct

\* ytdlp.rs:612-621 the total size: the text between " of " and the next
\* whitespace; 0 when either is missing
Total(line) ==
    LET of_idx == FindSpaced(line, "of")
        after_of == From(line, of_idx + 2)
        space_idx == FindSpace(after_of) IN
      IF of_idx = 0 \/ space_idx = 0 THEN 0
      ELSE parse_size(SubSeq(after_of, 1, space_idx - 1))

\* ytdlp.rs:624-631 the speed: the text between " at " and the next
\* whitespace; 0 when either is missing
Speed(line) ==
    LET at_idx == FindSpaced(line, "at")
        after_at == From(line, at_idx + 2)
        space_idx == FindSpace(after_at) IN
      IF at_idx = 0 \/ space_idx = 0 THEN 0
      ELSE parse_speed(SubSeq(after_at, 1, space_idx - 1))

\* ytdlp.rs:634-638 the eta: the rest of the line after "ETA "
Eta(line) ==
    LET eta_idx == FindBefore(line, "ETA") IN
      IF eta_idx = 0 THEN 0 ELSE parse_eta(From(line, eta_idx + 2))

\* ytdlp.rs:641 line.contains("100%"): a '%' right after text ending in 100
Contains100(line) ==
    \E i \in 2..Len(line) :
        /\ line[i] = Word("%")
        /\ line[i - 1].k = "num"
        /\ line[i - 1].d = 0
        /\ (line[i - 1].v \div 100) % 1000 = 100

\* a parser that takes every line with a '%' for a progress line
IsProgressLineAnyTag(line) == Contains(line, "%")

\* ytdlp.rs:579-587 the line has "[download]" and '%'
IsProgressLine(line) == Contains(line, "[download]") /\ Contains(line, "%")

\* ytdlp.rs:574-649 parse_progress_line; figures in bytes, the percentage in
\* hundredths
parse_progress_line(line) ==
    IF ~IsProgressLine(line) THEN [some |-> FALSE]
    ELSE LET progress == Percentage(line)
             total == Total(line) IN
           IF progress > 0 \/ Contains100(line)
           THEN [some |-> TRUE, progress |-> progress,
                 downloaded |-> MulDiv(progress, total, 10000),
                 total |-> total, speed |-> Speed(line), eta |-> Eta(line)]
           ELSE [some |-> FALSE]

\* the shapes of the lines parse_progress_line is called with:
\*   tag   the text the line begins with, and the whitespace after it
\*   pct   the percentage: none, a number before '%', "~100%", or a
\*         destination announcement in its place
\*   size  the total after " of ", if any; pad: whitespace that pads it
\*   rate  the rate after " at ", if any
\*   eta   the text after " ETA ", if any
Tags == {"", "[download]", "[ffmpeg]"}

Percentages ==
    [kind : {"none", "approx", "destination"}, v : {0}, d : {0}]
      \cup {[kind |-> "number", v |-> 5000, d |-> 1],
            [kind |-> "number", v |-> 2900, d |-> 1],
            [kind |-> "number", v |-> 0, d |-> 1],
            [kind |-> "number", v |-> 10000, d |-> 0]}

Amount(hundredths, unit) == [given |-> TRUE, v |-> hundredths, unit |-> unit]
NoAmount == [given |-> FALSE, v |-> 0, unit |-> "B"]

Sizes ==
    {NoAmount, Amount(10000, "MiB"), Amount(150, "GiB"), Amount(1024, "KiB"),
     Amount(512, "kB"), Amount(250, "mib"), Amount(700, "B"),
     Amount(300, "TiB")}

Rates == {NoAmount, Amount(500, "MiB"), Amount(12345, "KiB")}

Etas == {"", "00:10", "01:05", "Unknown"}

ParseCalls ==
    [tag : Tags, pct : Percentages, size : Sizes, pad : 0..1, rate : Rates,
     eta : Etas]

AmountText(a) == <<Num(a.v, 2), Word(a.unit)>>

\* the line of a call, token by token
LineOf(c) ==
    (IF c.tag = "" THEN << >> ELSE <<Word(c.tag), Sp, Sp>>)
    \o (CASE c.pct.kind = "none" -> << >>
          [] c.pct.kind = "number" -> <<Num(c.pct.v, c.pct.d), Word("%")>>
          [] c.pct.kind = "approx" -> <<Word("~"), Num(10000, 0), Word("%")>>
          [] c.pct.kind = "destination" ->
                <<Word("Destination:"), Sp, Word("/x/y.mp4")>>)
    \o (IF c.size.given
        THEN <<Sp, Word("of"), Sp>>
               \o (IF c.pad = 1 THEN <<Sp>> ELSE << >>)
               \o AmountText(c.size)
        ELSE << >>)
    \o (IF c.rate.given
        THEN <<Sp, Word("at"), Sp>> \o AmountText(c.rate) \o <<Word("/s")>>
        ELSE << >>)
    \o (CASE c.eta = "" -> << >>
          [] c.eta = "00:10" -> <<Sp, Word("ETA"), Sp, Time(0, 10)>>
          [] c.eta = "01:05" -> <<Sp, Word("ETA"), Sp, Time(1, 5)>>
          [] c.eta = "Unknown" -> <<Sp, Word("ETA"), Sp, Word("Unknown")>>)

\* download_video hands a line to the parser (ytdlp.rs:459)
Parse == Returns(parse_progress_line(LineOf(arg)))

ParseSpec == InitCall(ParseCalls) /\ [][Parse]_vars

(* ------------------------ output path capture ------------------------- *)
\* An output line is described by what the capture tests of download_video
\* look at: whether the trimmed line starts with "[", is empty, ends with
\* one of the ten extensions, contains a path separator, which of the three
\* markers it contains, and the path it names (for a Merger line: whether
\* the path stands between two quotes).
OutputLine(bracket, blank, ext, sep, marker, quoted, path) ==
    [bracket |-> bracket, blank |-> blank, ext |-> ext, sep |-> sep,
     marker |-> marker, quoted |-> quoted, path |-> path]

\* ytdlp.rs:418-428, 488-496: the generic test for a line that is a path
LooksLikePath(line) ==
    ~line.bracket /\ ~line.blank /\ line.ext /\ line.sep

\* a capture whose marker lines leave a candidate alone
CaptureMarkerKeeps(captured, line) == captured

\* ytdlp.rs:439-457: the Destination, Merger and MoveFiles lines
CaptureMarker(captured, line) ==
    IF line.marker = "destination" THEN line.path
    ELSE IF line.marker = "merger"
         THEN (IF line.quoted THEN line.path ELSE captured)
    ELSE IF line.marker = "movefiles" THEN line.path
    ELSE captured

\* ytdlp.rs:414-457: what one line of the select loop does to
\* captured_file_path (0 = None): the generic test first, the markers after
CaptureLine(captured, line) ==
    CaptureMarker(IF LooksLikePath(line) THEN line.path ELSE captured, line)

\* ytdlp.rs:484-502: what one line of the remaining stderr does
CaptureRest(captured, line) ==
    IF LooksLikePath(line) /\ captured = 0 THEN line.path ELSE captured

\* ytdlp.rs:381-502: captured_file_path once both loops have ended
RECURSIVE CaptureAll(_, _, _)
CaptureAll(captured, main, rest) ==
    IF main # << >>
    THEN CaptureAll(CaptureLine(captured, Head(main)), Tail(main), rest)
    ELSE IF rest # << >>
         THEN CaptureAll(CaptureRest(captured, Head(rest)), main, Tail(rest))
         ELSE captured

\* ytdlp.rs:376, 530: None at the start; handed to find_downloaded_file
captured_file_path(main, rest) == CaptureAll(0, main, rest)

Paths == 1..MaxPaths

\* the lines yt-dlp writes: the printed final path, a printed text that is
\* no path, a progress or other bracketed line, an empty line, and the
\* three marker lines
OutputLines ==
    {OutputLine(FALSE, FALSE, TRUE, TRUE, "none", FALSE, q) : q \in Paths}
    \cup {OutputLine(FALSE, FALSE, TRUE, FALSE, "none", FALSE, q) : q \in Paths}
    \cup {OutputLine(TRUE, FALSE, FALSE, FALSE, "none", FALSE, 0),
          OutputLine(FALSE, TRUE, FALSE, FALSE, "none", FALSE, 0)}
    \cup {OutputLine(TRUE, FALSE, TRUE, TRUE, "destination", FALSE, q) :
             q \in Paths}
    \cup {OutputLine(TRUE, FALSE, TRUE, TRUE, "merger", quoted, q) :
             quoted \in BOOLEAN, q \in Paths}
    \cup {OutputLine(TRUE, FALSE, TRUE, TRUE, "movefiles", TRUE, q) :
             q \in Paths}

LinesUpTo(n) == UNION {[1..k -> OutputLines] : k \in 0..n}

CaptureCalls == [main : LinesUpTo(MaxMainLines), rest : LinesUpTo(MaxRestLines)]

\* download_video has read all the output (ytdlp.rs:502)
Capture == Returns([path |-> captured_file_path(arg.main, arg.rest)])

CaptureSpec == InitCall(CaptureCalls) /\ [][Capture]_vars

(* ----------------------------- shutdown ------------------------------- *)
\* queue.rs:392-400 shutdown: set the flag, take a read guard on the active
\* set and begin to walk its keys (in the map's order, which is any order);
\* with no key the guard is dropped and shutdown returns
ShutdownBegin(t) ==
    /\ th[t].pc = "idle"
    /\ CanReadActive
    /\ IF active = << >>
       THEN th' = Begin(t, Ret(Entry(t, "shutdown", 0), "Ok"))
       ELSE \E id \in DOMAIN active :
              th' = Begin(t, [Entry(t, "shutdown", id) EXCEPT
                                !.pc = "shut_kill"])
    /\ UNCHANGED <<active, pending, max_concurrent, max_lock, registry, runs,
                   next_seq, resumes, dropped, arg, out>>
    /\ Silent

\* queue.rs:401 with queue.rs:295-305: cancel_download(id) signals the
\* registered process and then waits for the write guard on the active set.
\* The read guard of queue.rs:399 is still held by this same task, so the
\* wait never ends: "shut_write" has no step.
ShutdownKill(t) ==
    /\ th[t].pc = "shut_kill"
    /\ runs' = KillRuns(runs, registry, th[t].id)
    /\ registry' = KillReg(registry, th[t].id)
    /\ th' = [th EXCEPT ![t].pc = "shut_write",
                        ![t].hit = KillFinds(registry, th[t].id)]
    /\ UNCHANGED <<active, pending, max_concurrent, max_lock, next_seq,
                   resumes, dropped, arg, out>>
    /\ Silent

(* ------------------------------- list --------------------------------- *)
\* the tasks (seq) in the pending sequence or the active set
QueuedSeqs(act, pend) ==
    {act[id].seq : id \in DOMAIN act} \cup {pend[i].seq : i \in 1..Len(pend)}

\* queue.rs:349 active.values().cloned(): every record once, in the order
\* the map iterates, which is any order
ActiveValues(act) ==
    {[i \in 1..Cardinality(DOMAIN act) |-> ActiveTask(act, f[i])] :
        f \in {g \in [1..Cardinality(DOMAIN act) -> DOMAIN act] :
                  \A i, j \in 1..Cardinality(DOMAIN act) :
                      g[i] = g[j] => i = j}}

\* queue.rs:344-350 get_all_downloads: copy the active set under its read
\* lock, then release the lock
ListActive(t) ==
    /\ th[t].pc = "idle"
    /\ CanReadActive
    /\ \E vals \in ActiveValues(active) :
          th' = Begin(t, [Entry(t, "list", 0) EXCEPT
                            !.pc = "list_pending",
                            !.list = vals,
                            !.held = QueuedSeqs(active, pending)])
    /\ UNCHANGED <<active, pending, max_concurrent, max_lock, registry, runs,
                   next_seq, resumes, dropped, arg, out>>
    /\ Silent

\* queue.rs:352-358 get_all_downloads: append a copy of the pending
\* sequence under its read lock and return the list
ListPending(t) ==
    /\ th[t].pc = "list_pending"
    /\ th' = [th EXCEPT ![t] = [Ret(@, "Ok") EXCEPT
                                  !.list = th[t].list \o pending,
                                  !.held = th[t].held]]
    /\ UNCHANGED <<active, pending, max_concurrent, max_lock, registry, runs,
                   next_seq, resumes, dropped, arg, out>>
    /\ Silent

(* ------------------------- specifications ----------------------------- *)
\* a command begins on caller task t (ids and budget bound the callers)
Call(t, ids, budget) ==
    \/ \E id \in ids : AddCheckActive(t, id, budget)
    \/ \E n \in 0..MaxLimit : SetMaxWrite(t, n)
    \/ \E id \in ids : PauseKill(t, id)
    \/ \E id \in ids : ResumeTake(t, id, budget)
    \/ \E id \in ids : CancelKill(t, id)
    \/ ClearCompleted(t)

\* the steps a caller task takes once its command has begun
Running(t) ==
    \/ AddCheckPending(t) \/ AddPush(t)
    \/ PqBegin(t) \/ PqCount(t) \/ PqPop(t) \/ PqStart(t)
    \/ PauseMark(t) \/ ResumeStart(t) \/ CancelActive(t) \/ CancelPending(t)
    \/ Return(t)

\* concurrent callers that only submit, so the limit stays as constructed
NextSubmit ==
    \/ \E t \in Threads, id \in JobIds : AddCheckActive(t, id, MaxStarts)
    \/ \E t \in Threads :
          \/ AddCheckPending(t) \/ AddPush(t)
          \/ PqBegin(t) \/ PqCount(t) \/ PqPop(t) \/ PqStart(t)
          \/ Return(t)
    \/ Executor

SubmitSpec == Init /\ [][NextSubmit]_vars

\* one caller that issues any command, one after the other
NextSeq ==
    \/ Call(1, SeqJobIds, SeqStarts)
    \/ Running(1)
    \/ Executor

SeqSpec == Init /\ [][NextSeq]_vars

\* concurrent callers that submit and cancel
NextCancel ==
    \/ \E t \in Threads, id \in CancelJobIds :
          AddCheckActive(t, id, MaxStarts)
    \/ \E t \in Threads, id \in CancelJobIds : CancelKill(t, id)
    \/ \E t \in Threads :
          \/ AddCheckPending(t) \/ AddPush(t)
          \/ PqBegin(t) \/ PqCount(t) \/ PqPop(t) \/ PqStart(t)
          \/ CancelActive(t) \/ CancelPending(t)
          \/ Return(t)
    \/ Executor

CancelSpec == Init /\ [][NextCancel]_vars

\* one caller that submits, pauses, resumes and cancels while the external
\* engine cannot be started: every run ends in the failed spawn
NextResume ==
    \/ \E id \in ResumeJobIds : AddCheckActive(1, id, ResumeStarts)
    \/ \E id \in ResumeJobIds : PauseKill(1, id)
    \/ \E id \in ResumeJobIds : ResumeTake(1, id, ResumeStarts)
    \/ \E id \in ResumeJobIds : CancelKill(1, id)
    \/ Running(1)
    \/ \E p \in DOMAIN runs : SpawnFail(p)

ResumeSpec == Init /\ [][NextResume]_vars

\* one caller that submits, pauses and retries while the external engine
\* cannot be started, so that every job started ends up Failed (with one
\* caller the job a retry found Failed is still active when it cancels it,
\* so cancel_download never gets to look into pending)
NextRetry ==
    \/ \E id \in RetryJobIds : AddCheckActive(1, id, RetryStarts)
    \/ \E id \in RetryJobIds : PauseKill(1, id)
    \/ \E id \in RetryJobIds : RetryListActive(1, id, RetryStarts)
    \/ RetryListPending(1) \/ RetryKill(1) \/ RetryAdd(1)
    \/ AddCheckPending(1) \/ AddPush(1)
    \/ PqBegin(1) \/ PqCount(1) \/ PqPop(1) \/ PqStart(1)
    \/ PauseMark(1) \/ CancelActive(1)
    \/ Return(1)
    \/ \E p \in DOMAIN runs : SpawnFail(p)

RetrySpec == Init /\ [][NextRetry]_vars

\* one caller that only submits, while each process prints several progress
\* lines
NextStream ==
    \/ \E id \in JobIds : AddCheckActive(1, id, MaxStarts)
    \/ AddCheckPending(1) \/ AddPush(1)
    \/ PqBegin(1) \/ PqCount(1) \/ PqPop(1) \/ PqStart(1)
    \/ Return(1)
    \/ \E p \in DOMAIN runs :
          \/ SpawnFail(p) \/ SpawnOk(p) \/ ReadLine(p, StreamLines)
          \/ Finish(p) \/ Recv(p)

StreamSpec == Init /\ [][NextStream]_vars

\* one caller that issues any command while a run may also fail to capture
\* a stream of its process or to wait for it
NextFault ==
    \/ Call(1, SeqJobIds, SeqStarts)
    \/ Running(1)
    \/ Executor
    \/ \E p \in DOMAIN runs : CaptureFail(p) \/ WaitFail(p)

FaultSpec == Init /\ [][NextFault]_vars

\* one caller that only submits, while each process writes its progress
\* lines to stdout and stderr and download_video reads the two streams
NextDrain ==
    \/ \E id \in CancelJobIds : AddCheckActive(1, id, MaxStarts)
    \/ AddCheckPending(1) \/ AddPush(1)
    \/ PqBegin(1) \/ PqCount(1) \/ PqPop(1) \/ PqStart(1)
    \/ Return(1)
    \/ \E p \in DOMAIN runs :
          \/ SpawnFail(p) \/ SpawnOk(p) \/ WriteLine(p, DrainLines)
          \/ ReadOut(p) \/ ReadErr(p) \/ CloseOut(p) \/ DrainErr(p)
          \/ Finish(p) \/ Recv(p)

DrainSpec == Init /\ [][NextDrain]_vars

(* ----------------------------- claims -------------------------------- *)
ActiveCount == Cardinality(DOMAIN active)

\* the admission pass has nothing left to do
PassDone == pending = << >> \/ ActiveCount >= max_concurrent

\* caller task t has just returned from command c with result r
Returned(t, c, r) == th[t].pc = "ret" /\ th[t].cmd = c /\ th[t].res = r

\* C1: with the limit fixed and only submits running, the active set never
\* holds more entries than the limit.
C1_ActiveWithinLimit == ActiveCount <= max_concurrent

\* C2: a submit whose id was in pending or active when it was called never
\* gets past the duplicate checks to append its task.
C2_DuplicateRejected ==
    \A t \in Threads : th[t].pc = "add_push" => ~th[t].dup

\* C3: no job id occurs twice across the pending sequence and the active set.
C3_UniqueIds ==
    /\ \A i, j \in 1..Len(pending) : pending[i].id = pending[j].id => i = j
    /\ \A i \in 1..Len(pending) : pending[i].id \notin DOMAIN active

\* C4: a set_concurrency_limit call that finds pending jobs and free slots
\* can always take its next step towards returning with those jobs admitted.
C4_SetLimitProceeds ==
    \A t \in Threads :
        (/\ th[t].cmd = "set_max"
         /\ th[t].pc # "idle"
         /\ pending # << >>
         /\ max_concurrent > ActiveCount)
        => ENABLED Running(t)

\* C5: when a task is handed to start_download, no task appended after it has
\* been handed over before it.
C5_FifoHandover ==
    \A t \in Threads :
        th[t].pc = "pq_start" =>
            \A id \in DOMAIN active : active[id].seq < th[t].task.seq

\* C6: when a submit returns successfully and no other command ran during
\* the call, pending is empty or the active set has reached the limit.
C6_SoloSubmitDrains ==
    \A t \in Threads :
        (Returned(t, "submit", "Ok") /\ th[t].solo) => PassDone

\* C6 witness: such a submit has returned, stopped by the bound with a job
\* left pending
C6_Witness ==
    \E t \in Threads :
        /\ Returned(t, "submit", "Ok") /\ th[t].solo
        /\ pending # << >>
        /\ ActiveCount = max_concurrent

C8_PausedStays ==
    [][\A t \in Threads :
         (/\ Executor
          /\ Returned(t, "pause", "Ok")
          /\ th[t].id \in DOMAIN active
          /\ active[th[t].id].status = "Paused"
          /\ \E p \in DOMAIN runs :
                runs[p].id = th[t].id /\ runs[p].proc = "killed")
         => /\ th[t].id \in DOMAIN active'
            /\ active'[th[t].id].status = "Paused"]_vars

\* the step with which pause_download decides and returns
PauseReturns(t) == th[t].pc = "pause_mark" /\ th'[t].pc = "ret"

\* C9 as stated: pause fails with JobNotFound exactly when the id is in
\* neither pending nor active, and otherwise marks the job Paused.
C9_PauseFindsPendingToo ==
    [][\A t \in Threads :
         PauseReturns(t) =>
           (th'[t].res = "JobNotFound"
              <=> (th[t].id \notin DOMAIN active
                   /\ th[t].id \notin PendingIds))]_vars

\* C9: pause fails with JobNotFound exactly when the id is not in the active
\* set (a job that is only pending is not found); otherwise it returns Ok,
\* the job is marked Paused, and pending is left alone.
C9_PauseFindsActiveOnly ==
    [][\A t \in Threads :
         PauseReturns(t) =>
           /\ th'[t].res \in {"Ok", "JobNotFound"}
           /\ th'[t].res = "JobNotFound" <=> th[t].id \notin DOMAIN active
           /\ th'[t].res = "Ok" =>
                /\ DOMAIN active' = DOMAIN active
                /\ active'[th[t].id].status = "Paused"
           /\ th'[t].res = "JobNotFound" => active' = active
           /\ pending' = pending]_vars

\* C9 witness: a pause of an active job has returned Ok and the job is Paused
C9_Witness ==
    \E t \in Threads :
        /\ Returned(t, "pause", "Ok")
        /\ th[t].id \in DOMAIN active
        /\ active[th[t].id].status = "Paused"

\* C10: resume fails with JobNotActiveOrNotPaused, changing neither the
\* active set nor pending, unless the id is active with status Paused; when
\* it is, the call returns Ok with the job in the active set, Downloading,
\* and a run started for it that was not there before.
C10_ResumeOutcome ==
    [][\A t \in Threads :
         /\ (th[t].pc = "idle" /\ th'[t].cmd = "resume") =>
              LET id == th'[t].id
                  paused == id \in DOMAIN active
                              /\ active[id].status = "Paused" IN
                /\ pending' = pending
                /\ paused => th'[t].pc = "resume_start"
                /\ ~paused => /\ Returned(t, "resume",
                                          "JobNotActiveOrNotPaused")'
                              /\ active' = active
         /\ (th[t].pc = "resume_start" /\ th'[t] # th[t]) =>
              LET id == th[t].id IN
                /\ Returned(t, "resume", "Ok")'
                /\ pending' = pending
                /\ id \in DOMAIN active'
                /\ active'[id].status = "Downloading"
                /\ \E p \in (DOMAIN runs') \ (DOMAIN runs) :
                      runs'[p].id = id /\ runs'[p].px = "spawn"]_vars

\* C10 witness: a resume of a Paused job has returned Ok, the job is
\* Downloading and its new run is waiting to spawn
C10_Witness ==
    \E t \in Threads :
        /\ Returned(t, "resume", "Ok")
        /\ th[t].id \in DOMAIN active
        /\ active[th[t].id].status = "Downloading"
        /\ \E p \in DOMAIN runs :
              runs[p].id = th[t].id /\ runs[p].px = "spawn"

\* the pending sequence without the entries of job id
PendingWithout(id) == SelectSeq(pending, LAMBDA e : e.id # id)

\* C11: cancel removes an active job from the active set, or else a pending
\* job from the pending sequence, emits exactly one Cancelled sample for it
\* in either case and touches no other job; for an id in neither it returns
\* JobNotFound and emits nothing.
C11_CancelOutcome ==
    [][\A t \in Threads :
         /\ (th[t].pc = "idle" /\ th'[t].cmd = "cancel") =>
              /\ active' = active /\ pending' = pending /\ emitted' = << >>
              /\ \A p \in DOMAIN runs :
                    runs[p].id # th'[t].id => runs'[p] = runs[p]
         /\ (th[t].pc = "cancel_active" /\ th'[t] # th[t]) =>
              LET id == th[t].id IN
                /\ pending' = pending
                /\ runs' = runs
                /\ IF id \in DOMAIN active
                   THEN /\ Returned(t, "cancel", "Ok")'
                        /\ active' = MapDel(active, id)
                        /\ emitted' = <<Sample(id, "Cancelled", FALSE, 0)>>
                   ELSE /\ th'[t].pc = "cancel_pending"
                        /\ active' = active
                        /\ emitted' = << >>
         /\ (th[t].pc = "cancel_pending" /\ th'[t] # th[t]) =>
              LET id == th[t].id IN
                /\ active' = active
                /\ runs' = runs
                /\ IF id \in PendingIds
                   THEN /\ Returned(t, "cancel", "Ok")'
                        /\ pending' = PendingWithout(id)
                        /\ Len(pending') = Len(pending) - 1
                        /\ emitted' = <<Sample(id, "Cancelled", FALSE, 0)>>
                   ELSE /\ Returned(t, "cancel", "JobNotFound")'
                        /\ pending' = pending
                        /\ emitted' = << >>]_vars

\* C11 witness: a cancel of a pending job has returned Ok, the job is gone,
\* another job is still queued, and the Cancelled sample is the event emitted
C11_Witness ==
    \E t \in Threads :
        /\ Returned(t, "cancel", "Ok")
        /\ th[t].id \notin PendingIds \cup DOMAIN active
        /\ DOMAIN active # {}
        /\ emitted = <<Sample(th[t].id, "Cancelled", FALSE, 0)>>

\* C12: a task that cancel removed from the pending sequence is never again
\* queued, held by an admission pass or active, and no step starts an
\* executor run (the only thing that spawns and registers a process) for it,
\* whatever admission passes other callers run meanwhile.
C12_DroppedNeverStarted ==
    [][/\ \A p \in (DOMAIN runs') \ (DOMAIN runs) :
             /\ runs'[p].id \in DOMAIN active'
             /\ active'[runs'[p].id].seq \notin dropped'
       /\ \A i \in 1..Len(pending') : pending'[i].seq \notin dropped'
       /\ \A t \in Threads : th'[t].task.seq \notin dropped'
       /\ \A id \in DOMAIN active' : active'[id].seq \notin dropped']_vars

\* C12 witness: a cancel has removed a pending task while another caller is
\* inside its admission pass
C12_Witness ==
    \E t, u \in Threads :
        /\ Returned(t, "cancel", "Ok")
        /\ dropped # {}
        /\ th[u].cmd = "submit"
        /\ th[u].pc \in {"pq_begin", "pq_count", "pq_pop"}

\* C13: clear_completed removes exactly the active entries whose status is
\* Completed, Failed or Cancelled; every other entry, the pending sequence,
\* the limit and the process registry stay as they were.
C13_ClearRemovesTerminalOnly ==
    [][\A t \in Threads :
         (th[t].pc = "idle" /\ th'[t].cmd = "clear") =>
           /\ DOMAIN active' =
                {id \in DOMAIN active :
                    active[id].status \notin {"Completed", "Failed",
                                              "Cancelled"}}
           /\ \A id \in DOMAIN active' : active'[id] = active[id]
           /\ pending' = pending
           /\ max_concurrent' = max_concurrent
           /\ registry' = registry
           /\ Returned(t, "clear", "Ok")']_vars

\* C13 witness: clear has returned after two jobs were started; one Paused
\* entry is all that is left of them and nothing was removed from pending
C13_Witness ==
    \E t \in Threads :
        /\ Returned(t, "clear", "Ok")
        /\ next_seq = 3 /\ dropped = {} /\ pending = << >>
        /\ Cardinality(DOMAIN active) = 1
        /\ \A id \in DOMAIN active : active[id].status = "Paused"

\* every id in the pending sequence, the active set or an admission pass
QueuedIds ==
    PendingIds \cup DOMAIN active
      \cup {th[t].task.id : t \in {u \in Threads : th[u].pc = "pq_start"}}

\* C14 as stated: when a retry adds its new task, the Failed record it
\* retried is still in the active set, unchanged.
C14_RetryKeepsOriginal ==
    [][\A t \in Threads :
         (th[t].pc = "retry_add" /\ th'[t] # th[t]) =>
           /\ th[t].id \in DOMAIN active'
           /\ active'[th[t].id].status = "Failed"]_vars

\* C14: retry goes ahead exactly when the job it finds is Failed; it then
\* removes that record from the active set, emitting a Cancelled sample for
\* it, and appends a new task with a fresh id, status Pending and the
\* options of the removed job.
C14_RetryReplacesOriginal ==
    [][\A t \in Threads :
         /\ (th[t].pc = "retry_list_pending" /\ th'[t] # th[t]) =>
              /\ th'[t].pc = "retry_kill" <=>
                    (th[t].task.status = "Failed"
                     /\ th'[t].task.opt = th[t].task.opt
                     /\ th'[t].task.id \notin QueuedIds \cup RetryJobIds)
              /\ th'[t].pc # "retry_kill" =>
                    th'[t].pc = "ret" /\ th'[t].res # "Ok"
              /\ active' = active /\ pending' = pending
         /\ (th[t].cmd = "retry" /\ th[t].pc = "cancel_active"
               /\ th'[t] # th[t]) =>
              /\ th[t].id \in DOMAIN active
              /\ active' = MapDel(active, th[t].id)
              /\ emitted' = <<Sample(th[t].id, "Cancelled", FALSE, 0)>>
              /\ th'[t].pc = "retry_add"
         /\ (th[t].cmd = "retry" /\ th[t].pc = "add_push"
               /\ th'[t] # th[t]) =>
              /\ th[t].id = th[t].task.id
              /\ th[t].id \notin QueuedIds
              /\ pending' = Append(pending,
                               [id |-> th[t].id, status |-> "Pending",
                                seq |-> next_seq, opt |-> th[t].task.opt,
                                error |-> FALSE,
                                completed_at |-> FALSE])]_vars

\* C14 witness: a retry has returned Ok; the job it added carries the
\* options of an earlier submission and the retried job is gone
C14_Witness ==
    \E t \in Threads :
        /\ Returned(t, "retry", "Ok")
        /\ \E id \in DOMAIN active :
              /\ id \notin RetryJobIds
              /\ active[id].opt < active[id].seq
        /\ \A id \in RetryJobIds : id \notin DOMAIN active

RunEnds(p) ==
    /\ runs[p].px \in {"spawn", "read"}
    /\ p \in DOMAIN runs' => runs'[p].px = "done"

\* the registry entry of job id names a run of that job whose process is
\* running (spawned, not signalled, not exited)
NamesLiveProcess(reg, rs, id) ==
    /\ reg[id] \in DOMAIN rs
    /\ rs[reg[id]].id = id
    /\ rs[reg[id]].proc = "running"

IsFinal(sample) ==
    \/ sample.status = "Failed"
    \/ sample.status = "Completed" /\ sample.path

\* C16: once the completion task of a run has published the job's Completed
\* or Failed sample, no Downloading sample of that job is published (stated
\* for the first and only run of the first job submitted).
C16_FinalSampleIsLast ==
    [][\A p \in DOMAIN runs :
         (/\ next_seq = 2 /\ resumes = 0
          /\ runs[p].px = "done"
          /\ emitted # << >>
          /\ emitted[1].id = runs[p].id
          /\ IsFinal(emitted[1])) =>
            \A i \in 1..Len(emitted') :
                ~(emitted'[i].id = runs[p].id
                    /\ emitted'[i].status = "Downloading")]_vars

\* the samples queued in run p's channel after the step (none once the run
\* is gone)
ChanAfter(p) == IF p \in DOMAIN runs' THEN runs'[p].chan ELSE << >>

\* C17: within a run the samples are published in the order their lines
\* were read: a line read is queued behind every sample already queued, with
\* the next line number; the only sample a step publishes from a run is the
\* oldest one queued, which leaves the queue in that step; a sample parsed
\* from a line is published by no other step.
C17_PublishedInReadOrder ==
    [][/\ \A p \in DOMAIN runs :
             LET chan == runs[p].chan IN
               /\ (runs[p].px = "read" /\ ChanAfter(p) # chan
                     /\ Len(ChanAfter(p)) > Len(chan)) =>
                     /\ Len(ChanAfter(p)) = Len(chan) + 1
                     /\ SubSeq(ChanAfter(p), 1, Len(chan)) = chan
                     /\ LET new == ChanAfter(p)[Len(chan) + 1] IN
                          \/ new.line = runs[p].lines + 1
                                /\ new.status = "Downloading"
                          \/ new.line = 0 /\ new.status = "Completed"
                                /\ runs'[p].px = "done"
                     /\ \A i \in 1..Len(emitted') : emitted'[i].line = 0
               /\ (ChanAfter(p) # chan
                     /\ Len(ChanAfter(p)) <= Len(chan)) =>
                     /\ chan # << >>
                     /\ ChanAfter(p) = Tail(chan)
                     /\ emitted' = <<Head(chan)>>
               /\ \A i, j \in 1..Len(chan) :
                     (i < j /\ chan[j].line > 0) => chan[i].line < chan[j].line
       /\ \A i \in 1..Len(emitted') :
             emitted'[i].line > 0 =>
               \E p \in DOMAIN runs :
                   /\ runs[p].chan # << >>
                   /\ Head(runs[p].chan) = emitted'[i]
                   /\ ChanAfter(p) = Tail(runs[p].chan)]_vars

\* C17 witness: the sample of the second line has just been published while
\* the sample of the third line of the same run is queued behind it
C17_Witness ==
    /\ emitted # << >>
    /\ emitted[1].line = 2
    /\ \E p \in DOMAIN runs :
          /\ runs[p].id = emitted[1].id
          /\ runs[p].chan # << >>
          /\ Head(runs[p].chan).line = 3

\* the step gives job id the status: its record is new with it or changes
\* to it
Becomes(id, status) ==
    /\ id \in DOMAIN active'
    /\ active'[id].status = status
    /\ id \in DOMAIN active => active[id].status # status

\* the step is cancel's removal of job id from the active set or from the
\* pending sequence
CancelRemoves(id) ==
    \E t \in Threads :
        /\ th[t].id = id
        /\ \/ th[t].pc = "cancel_active" /\ id \in DOMAIN active
           \/ th[t].pc = "cancel_pending" /\ id \in PendingIds
        /\ th'[t] # th[t]

\* every step that gives a job a new status, and every removal by cancel,
\* publishes exactly one sample, which carries that job and status
TransitionPublishes ==
    /\ \A id \in DOMAIN active' :
          Becomes(id, active'[id].status) =>
            /\ Len(emitted') = 1
            /\ emitted'[1].id = id
            /\ emitted'[1].status = active'[id].status
    /\ \A id \in DOMAIN active \cup PendingIds :
          CancelRemoves(id) =>
            emitted' = <<Sample(id, "Cancelled", FALSE, 0)>>

\* C18 as stated: a status transition publishes exactly one sample with the
\* new status, and a sample that was not parsed from a progress line is
\* published by such a transition only, so that no transition has two.
C18_OneSamplePerTransition ==
    [][/\ TransitionPublishes
       /\ \A i \in 1..Len(emitted') :
             emitted'[i].line = 0 =>
               \/ Becomes(emitted'[i].id, emitted'[i].status)
               \/ emitted'[i].status = "Cancelled"
                     /\ CancelRemoves(emitted'[i].id)]_vars

\* C18: every step that gives a job a new status (admission, resume, pause,
\* exit, a sample taken by the receiver) and every removal by cancel
\* publishes in that step one sample carrying the job and the new status.
C18_TransitionPublishes == [][TransitionPublishes]_vars

\* C18 witness: the completion task has made a job Completed and published
\* the Completed sample with the output path, while the Completed sample
\* that download_video sent for the same exit is still queued
C18_Witness ==
    \E p \in DOMAIN runs :
        /\ runs[p].px = "done"
        /\ runs[p].id \in DOMAIN active
        /\ active[runs[p].id].status = "Completed"
        /\ emitted = <<Sample(runs[p].id, "Completed", TRUE, 0)>>
        /\ runs[p].chan = <<Sample(runs[p].id, "Completed", FALSE, 0)>>

\* the step is the end of run p with exit status zero: download_video
\* queues its Completed sample and returns
ZeroExit(p) ==
    /\ runs[p].px = "read"
    /\ runs[p].proc = "running"
    /\ p \in DOMAIN runs'
    /\ runs'[p].px = "done"
    /\ runs'[p].chan =
          Append(runs[p].chan, Sample(runs[p].id, "Completed", FALSE, 0))

\* C19: a published sample that carries an output path has status Completed
\* and is published by the step that ends a run of its job with exit status
\* zero; no sample queued in a progress channel carries a path.
C19_PathOnlyOnCompleted ==
    [][/\ \A i \in 1..Len(emitted') :
             emitted'[i].path =>
               /\ emitted'[i].status = "Completed"
               /\ \E p \in DOMAIN runs :
                     runs[p].id = emitted'[i].id /\ ZeroExit(p)
       /\ \A p \in DOMAIN runs' :
             \A i \in 1..Len(runs'[p].chan) : ~runs'[p].chan[i].path]_vars

\* C19 witness: the sample just published carries the output path of a job
\* that is now Completed
C19_Witness ==
    \E id \in DOMAIN active :
        /\ active[id].status = "Completed"
        /\ emitted # << >>
        /\ emitted[1].id = id
        /\ emitted[1].path

\* C20: a record whose status is Completed, Failed or Cancelled keeps that
\* status for as long as it is in the active set, whatever command or
\* executor step comes.
C20_TerminalStays ==
    [][\A id \in (DOMAIN active) \cap (DOMAIN active') :
         (Terminal(active[id].status) /\ active'[id].seq = active[id].seq)
           => active'[id].status = active[id].status]_vars

\* run p has registered its process, before the step or in it
HasRegistered(p) ==
    \/ runs[p].px = "read"
    \/ /\ runs[p].px = "spawn"
       /\ registry' # registry
       /\ runs[p].id \in DOMAIN registry'
       /\ registry'[runs[p].id] = p

\* C21: when a run that registered a process ends, however it ends, the
\* registry does not hold the entry that run registered.
C21_EndedRunUnregistered ==
    [][\A p \in DOMAIN runs :
         (RunEnds(p) /\ HasRegistered(p)) =>
            ~(runs[p].id \in DOMAIN registry'
                /\ registry'[runs[p].id] = p)]_vars

\* the progress lines of run p still unread on either stream after the step
UnreadAfter(p) ==
    IF p \in DOMAIN runs'
    THEN Len(runs'[p].outq) + Len(runs'[p].errq)
    ELSE 0

\* C22: every progress line that download_video takes from stdout or from
\* stderr is sent as one Downloading sample carrying that line, whichever
\* stream ends first (the receiver then publishes each queued sample once).
C22_EveryLineSent ==
    [][\A p \in DOMAIN runs :
         UnreadAfter(p) < Len(runs[p].outq) + Len(runs[p].errq) =>
           /\ p \in DOMAIN runs'
           /\ UnreadAfter(p) = Len(runs[p].outq) + Len(runs[p].errq) - 1
           /\ \E line \in {Head(q) : q \in {runs[p].outq, runs[p].errq}
                                              \ {<< >>}} :
                 runs'[p].chan =
                    Append(runs[p].chan, LineSample(runs[p].id, line))]_vars

\* C23: with no pause or cancel issued, the step that ends a job's run in
\* failure leaves the record Failed with the error attached and publishes
\* the Failed sample, and the record then stays Failed with its error.
C23_FailureRecorded ==
    [][/\ \A p \in DOMAIN runs :
             (RunEnds(p) /\ runs[p].id \in DOMAIN active) =>
               LET id == runs[p].id IN
                 \/ /\ active'[id].status = "Completed"
                    /\ ZeroExit(p)
                 \/ /\ active'[id].status = "Failed"
                    /\ active'[id].error
                    /\ emitted' = <<Sample(id, "Failed", FALSE, 0)>>
       /\ \A id \in DOMAIN active :
             (active[id].status = "Failed" /\ active[id].error) =>
               /\ id \in DOMAIN active'
               /\ active'[id].status = "Failed"
               /\ active'[id].error]_vars

\* the results that report a breach of the scheduling contract
ContractErrors == {"DuplicateJob", "JobNotFound", "JobNotActiveOrNotPaused"}

\* C24: a command that returns DuplicateJob, JobNotFound or
\* JobNotActiveOrNotPaused has found no registry entry to signal and remove,
\* and the step on which it returns changes no record, no queue entry, no
\* run and no registry entry and publishes nothing.
C24_ErrorChangesNothing ==
    [][\A t \in Threads :
         (th[t].pc # "ret" /\ th'[t].pc = "ret"
            /\ th'[t].res \in ContractErrors) =>
           /\ ~th'[t].hit
           /\ active' = active /\ pending' = pending
           /\ runs' = runs /\ registry' = registry
           /\ emitted' = << >>]_vars

\* the files that find_downloaded_file may pick in the directory of the call
Candidates == {i \in 1..Len(arg.dir.entries) : IsMedia(arg.dir.entries[i])}

HasMarker == arg.pct.kind \in {"number", "approx"}

\* the line carries a percentage that is above 0, or the text 100%
PercentageCounts ==
    \/ arg.pct.kind = "number" /\ arg.pct.v > 0
    \/ arg.pct.kind = "approx"

\* C26 as stated: parse_progress_line returns a sample exactly for the lines
\* with a percentage marker whose percentage is above 0 or that contain
\* 100%; every line without marker gives None.
C26_SampleIffPercentage ==
    out # NoValue => (out.some <=> (HasMarker /\ PercentageCounts))

\* C26: parse_progress_line returns a sample exactly for the lines that
\* contain [download] and a percentage marker and whose percentage is above
\* 0 or that contain 100%; every other line, a destination announcement
\* included, gives None; the percentage returned is the one written, 0 when
\* the text before the marker is not a number.
C26_SampleIffDownloadPercentage ==
    out # NoValue =>
      /\ out.some <=>
            (arg.tag = "[download]" /\ HasMarker /\ PercentageCounts)
      /\ out.some =>
            out.progress = IF arg.pct.kind = "number" THEN arg.pct.v ELSE 0

\* C26 witness: a [download] line with "~100%" has given a sample with
\* percentage 0
C26_Witness ==
    /\ out # NoValue /\ out.some
    /\ arg.tag = "[download]" /\ arg.pct.kind = "approx"
    /\ out.progress = 0

\* the multiplier the unit stands for
UnitBytes(unit) ==
    CASE unit \in {"KiB", "kB"} -> 1024
      [] unit \in {"MiB", "mib"} -> 1048576
      [] unit = "GiB" -> 1073741824
      [] OTHER -> 1

\* the bytes an amount written with two decimals stands for
Bytes(a) == MulDiv(a.v, UnitBytes(a.unit), 100)

\* C27: for a progress line with a percentage, a total size and a rate the
\* sample has total = size x multiplier, downloaded = percentage/100 x
\* total and speed = rate x multiplier, and eta 10 for "ETA 00:10".
C27_Figures ==
    (out # NoValue /\ out.some /\ arg.pct.kind = "number"
       /\ arg.size.given /\ arg.rate.given) =>
      /\ out.total = Bytes(arg.size)
      /\ out.downloaded = MulDiv(arg.pct.v, Bytes(arg.size), 10000)
      /\ out.speed = Bytes(arg.rate)
      /\ arg.eta = "00:10" => out.eta = 10

\* the jobs of the active set that have not ended
Unfinished == {id \in DOMAIN active : ~Terminal(active[id].status)}

\* C28: the step in which a job's run ends Completed or Failed removes the
\* job from the active set, and an admission pass stops on the bound only
\* when that many jobs are in the active set that have not ended.
C28_EndedJobLeavesActive ==
    [][/\ \A p \in DOMAIN runs :
             (RunEnds(p) /\ runs[p].id \in DOMAIN active) =>
               runs[p].id \notin DOMAIN active'
       /\ \A t \in Threads :
             (th[t].pc = "pq_count" /\ th'[t].pc = "ret") =>
               Cardinality(Unfinished) >= th[t].maxc]_vars

\* C29: in every reachable state a record of the active set carries an error
\* message only while its status is Failed and a completion timestamp only
\* while its status is Completed.
C29_TerminalFieldsMatchStatus ==
    \A id \in DOMAIN active :
        /\ active[id].error => active[id].status = "Failed"
        /\ active[id].completed_at => active[id].status = "Completed"

\* one caller submits while another lists; no job leaves the queue
NextList ==
    \/ \E id \in JobIds : AddCheckActive(1, id, MaxStarts)
    \/ AddCheckPending(1) \/ AddPush(1)
    \/ PqBegin(1) \/ PqCount(1) \/ PqPop(1) \/ PqStart(1)
    \/ ListActive(2) \/ ListPending(2)
    \/ \E t \in Threads : Return(t)
    \/ Executor

ListSpec == Init /\ [][NextList]_vars

\* how many entries of list are the task seq
Listed(list, seq) == Cardinality({i \in 1..Len(list) : list[i].seq = seq})

\* C30: the list get_all_downloads returns holds exactly once every job that
\* was in the pending sequence or the active set when the call began and is
\* in one of them when it ends, a job that an admission pass moved from
\* pending to active during the call included.
C30_ListHoldsEveryJobOnce ==
    [][\A t \in Threads :
          (th[t].pc = "list_pending" /\ th'[t].pc = "ret") =>
              \A seq \in th[t].held \cap QueuedSeqs(active, pending) :
                  Listed(th'[t].list, seq) = 1]_vars

\* one caller that submits and shuts the queue down
NextShut ==
    \/ \E id \in JobIds : AddCheckActive(1, id, MaxStarts)
    \/ AddCheckPending(1) \/ AddPush(1)
    \/ PqBegin(1) \/ PqCount(1) \/ PqPop(1) \/ PqStart(1)
    \/ ShutdownBegin(1) \/ ShutdownKill(1)
    \/ Return(1)
    \/ Executor

\* the runtime goes on polling the caller's future whenever it can take a
\* step
FairShutSpec ==
    Init /\ [][NextShut]_vars /\ WF_vars(ShutdownKill(1) \/ Running(1))

\* the runs suspended on the next line of their process or on its exit
WaitingRuns == {p \in DOMAIN runs : runs[p].px \in {"read", "drain"}}

RECURSIVE LastGeneric(_)
LastGeneric(lines) ==
    IF lines = << >> THEN 0
    ELSE IF LooksLikePath(lines[Len(lines)]) THEN lines[Len(lines)].path
    ELSE LastGeneric(SubSeq(lines, 1, Len(lines) - 1))

\* C32: when a line that passes the generic path test was read, the
\* candidate handed to the output resolver is the last such line: it
\* replaces earlier candidates and no later marker line replaces it.
C32_GenericLineWins ==
    (out # NoValue /\ LastGeneric(arg.main \o arg.rest) # 0) =>
        out.path = LastGeneric(arg.main \o arg.rest)

\* one caller changes the limit while another submits
NextLimit ==
    \/ \E n \in 0..MaxLimit : SetMaxWrite(1, n)
    \/ \E id \in JobIds : AddCheckActive(2, id, MaxStarts)
    \/ \E t \in Threads :
          \/ AddCheckPending(t) \/ AddPush(t)
          \/ PqBegin(t) \/ PqCount(t) \/ PqPop(t) \/ PqStart(t)
          \/ Return(t)

\* the runtime goes on polling every command future that can take a step,
\* and a lock that stays free is granted to a task that waits for it
FairLimitSpec ==
    Init /\ [][NextLimit]_vars /\ \A t \in Threads : WF_vars(Running(t))

\* C33: every set_max_concurrent call returns, and so does every
\* add_download call, those issued after a set_max_concurrent included.
C33_LimitAndSubmitReturn ==
    \A t \in Threads : (th[t].pc # "idle") ~> (th[t].pc = "ret")

\* C34: a shutdown call returns, also when it finds jobs in the active set,
\* and once it has returned no job that it found there is left in the active
\* set or in the registry.
C34_ShutdownReturns ==
    /\ \A t \in Threads :
          (th[t].cmd = "shutdown" /\ th[t].pc # "idle") ~> (th[t].pc = "ret")
    /\ [](\A t \in Threads :
            (th[t].cmd = "shutdown" /\ th[t].pc = "ret" /\ th[t].id # 0) =>
                th[t].id \notin DOMAIN active \cup DOMAIN registry)

\* one caller that submits, cancels and clears while the external engine
\* cannot be started: every run ends in the failed spawn
NextFree ==
    \/ \E id \in JobIds : AddCheckActive(1, id, MaxStarts)
    \/ \E id \in JobIds : CancelKill(1, id)
    \/ ClearCompleted(1)
    \/ AddCheckPending(1) \/ AddPush(1)
    \/ PqBegin(1) \/ PqCount(1) \/ PqPop(1) \/ PqStart(1)
    \/ CancelActive(1) \/ CancelPending(1)
    \/ Return(1)
    \/ \E p \in DOMAIN runs : SpawnFail(p)

\* the runtime goes on polling the caller's future and every spawned task
\* whenever they can take a step; nothing obliges the caller to call again
FairFreeSpec ==
    /\ Init /\ [][NextFree]_vars
    /\ WF_vars(Running(1))
    /\ WF_vars(\E p \in DOMAIN runs : SpawnFail(p))

\* the task seq is in the pending sequence
InPending(seq) == \E i \in 1..Len(pending) : pending[i].seq = seq

\* C35: a job that is pending while the active set holds fewer entries than
\* the limit leaves the pending sequence in the end (it is admitted, or
\* cancelled), whether or not a further command is issued.
C35_FreeSlotAdmitsPending ==
    \A seq \in 1..MaxStarts :
        (InPending(seq) /\ ActiveCount < max_concurrent) ~> ~InPending(seq)

\* an external process of job id is running or registered
HasProcess(rs, reg, id) ==
    \/ id \in DOMAIN reg
    \/ \E p \in DOMAIN rs : rs[p].id = id /\ rs[p].proc = "running"

\* C36: once cancel_download has returned Ok for a job of the active set,
\* and for as long as its caller issues no further command, no step leaves
\* an external process of that job running or registered, also when the
\* cancel came before the run had spawned and registered its process.
C36_CancelledJobHasNoProcess ==
    [][\A t \in Threads :
          (Returned(t, "cancel", "Ok") /\ th'[t] = th[t]) =>
              ~HasProcess(runs', registry', th[t].id)]_vars

\* C37: the step that ends a run leaves every registry entry of another
\* run's process in place: after pause and resume the exit of the earlier
\* run does not remove the entry of the new run's process.
C37_UnregisterOwnEntryOnly ==
    [][\A p \in DOMAIN runs :
          RunEnds(p) =>
              \A id \in DOMAIN registry :
                  registry[id] # p =>
                      (id \in DOMAIN registry' /\ registry'[id] = registry[id])
      ]_vars

\* a run of the same job was started after run p
Superseded(rs, p) == \E q \in DOMAIN rs : q[1] = p[1] /\ q[2] > p[2]

\* the step is one of run p: of its download_video, its completion task or
\* its receiver task
StepOfRun(p) == p \notin DOMAIN runs' \/ runs'[p] # runs[p]

\* C38: while one job has been submitted, so that a second run of it can
\* only come from pause and resume, no step of the earlier run changes the
\* status or the error of the job's record.
C38_EarlierRunLeavesRecord ==
    [][\A p \in DOMAIN runs :
          (/\ next_seq = 2
           /\ Superseded(runs, p)
           /\ StepOfRun(p)
           /\ runs[p].id \in DOMAIN active)
          => /\ runs[p].id \in DOMAIN active'
             /\ active'[runs[p].id].status = active[runs[p].id].status
             /\ active'[runs[p].id].error = active[runs[p].id].error]_vars

\* C39: while jobs are only submitted, so that none is cancelled or
\* cleared, every task pushed so far is in the pending sequence or in the
\* active set in every reachable state.
C39_SubmittedJobIsQueued ==
    \A seq \in 1..(next_seq - 1) : seq \in QueuedSeqs(active, pending)

\* C40: every entry of the pending sequence has status Pending and every
\* entry of the active set has status Downloading, Paused, Completed or
\* Failed: no stored record is Cancelled, Fetching or Processing.
C40_StoredStatuses ==
    /\ \A i \in 1..Len(pending) : pending[i].status = "Pending"
    /\ \A id \in DOMAIN active :
          active[id].status \in {"Downloading", "Paused", "Completed", "Failed"}

\* a cancel has returned Ok, its job's record being removed rather than
\* marked, while the record of a job whose run has ended is in the active set
C40_Witness ==
    /\ \E t \in Threads : Returned(t, "cancel", "Ok")
    /\ \E id \in DOMAIN active : active[id].status \in {"Completed", "Failed"}

====
